---- MODULE Spec2Model ----
(***************************************************************************)
(* Pionex dashboard backend: the request signer and the signed proxy of    *)
(* src/server.py (Flask), src/api/index.py and src/api/positions.py        *)
(* (serverless), and the in-memory manual bot store of src/server.py.      *)
(*                                                                         *)
(* Python strings are TLA+ strings (\o is +, SubSeq slices, ToString is    *)
(* str of an int).  A Python value that may be a str, an int or None is a  *)
(* tagged record (Str, Num, None).  A dict is the sequence of its          *)
(* <<key, value>> items in insertion order, keys pairwise distinct.        *)
(***************************************************************************)
EXTENDS Integers, Sequences, FiniteSets, TLC

VARIABLES
    now,                \* time.time() * 1000, the wall clock in milliseconds
    PIONEX_API_KEY,     \* module global, read once from the environment
    PIONEX_API_SECRET,  \* module global, read once from the environment
    MANUAL_BOT_DATA,    \* server.py: the manual bot store (a dict)
    request,            \* the inbound request handled last
    response,           \* the response returned for it
    sent,               \* the upstream calls issued while handling it
    call,               \* arguments of one pionex_request call (signer check)
    signed,             \* what pionex_request built for that call
    threads,            \* concurrent request handlers of server.py
    posted              \* history: per bot name, the updatedAt stamps of its last two POSTs

vars == <<now, PIONEX_API_KEY, PIONEX_API_SECRET, MANUAL_BOT_DATA, request,
          response, sent, call, signed, threads, posted>>

-----------------------------------------------------------------------------
(* Bounds of the model *)

\* the clock starts here, so that timestamps of one and of two digits occur
StartMillis == 8
\* the clock advances at most this many milliseconds
MaxClock == 2
\* largest number of query parameters of a call given to the signer
MaxParams == 2
\* request threads of the Flask server that run at once
NumThreads == 2

-----------------------------------------------------------------------------
(* Python values *)

None == [kind |-> "none", s |-> "", n |-> 0]
Str(s) == [kind |-> "str", s |-> s, n |-> 0]
Num(n) == [kind |-> "int", s |-> "", n |-> n]

\* bool(v): None, "" and 0 are falsy
Truthy(v) == ~(v.kind = "none" \/ (v.kind = "str" /\ v.s = "") \/ (v.kind = "int" /\ v.n = 0))

\* str(v), what an f-string puts for {v}
Format(v) == CASE v.kind = "str" -> v.s
               [] v.kind = "int" -> ToString(v.n)
               [] OTHER -> "None"

\* the characters the model's strings use, in code point order
CodeOrder == "&,-./0123456789:=?ABCDEFGHIJKLMNOPQRSTUVWXYZ_abcdefghijklmnopqrstuvwxyz{}"

\* the rank of each character of CodeOrder in it
OrdTable ==
    [c \in {SubSeq(CodeOrder, i, i) : i \in 1..Len(CodeOrder)} |->
        CHOOSE i \in 1..Len(CodeOrder) : SubSeq(CodeOrder, i, i) = c]

\* ord(c), up to a monotone map
Ord(c) == OrdTable[c]

RECURSIVE StrLessFrom(_, _, _)
StrLessFrom(a, b, i) ==
    IF i > Len(a) THEN i <= Len(b)
    ELSE IF i > Len(b) THEN FALSE
    ELSE IF SubSeq(a, i, i) = SubSeq(b, i, i) THEN StrLessFrom(a, b, i + 1)
    ELSE Ord(SubSeq(a, i, i)) < Ord(SubSeq(b, i, i))

\* a < b on Python strings: lexicographic by code point
StrLess(a, b) == StrLessFrom(a, b, 1)

\* items in ascending key order, given that sortedItems is
InsertSorted(item, sortedItems) ==
    LET before == SelectSeq(sortedItems, LAMBDA x : ~StrLess(item[1], x[1]))
        after == SelectSeq(sortedItems, LAMBDA x : StrLess(item[1], x[1]))
    IN before \o <<item>> \o after

\* the items left in insertion order
sorted_Unsorted(items) == items

RECURSIVE sorted(_)
\* sorted(params.items()): the keys of a dict are distinct, so the order is by key
sorted(items) ==
    IF items = <<>> THEN <<>>
    ELSE InsertSorted(items[Len(items)], sorted(SubSeq(items, 1, Len(items) - 1)))

RECURSIVE Join(_, _)
\* sep.join(parts)
Join(sep, parts) ==
    IF parts = <<>> THEN ""
    ELSE IF Len(parts) = 1 THEN parts[1]
    ELSE parts[1] \o sep \o Join(sep, Tail(parts))

-----------------------------------------------------------------------------
(* The signer *)

PIONEX_API_URL == "https://api.pionex.com"

RECURSIVE QueryParts(_)
\* the loop over sorted(params.items()): None values are skipped
QueryParts(items) ==
    IF items = <<>> THEN <<>>
    ELSE LET key == items[1][1]
             value == items[1][2]
         IN IF value # None
            THEN <<key \o "=" \o Format(value)>> \o QueryParts(Tail(items))
            ELSE QueryParts(Tail(items))

\* query_string of pionex_request; `if params:` skips None and {} alike, both are <<>> here
QueryString(params) == Join("&", QueryParts(sorted(params)))

\* a body argument: absent (None) or a dict
NoBody == [present |-> FALSE, items |-> <<>>]
Body(items) == [present |-> TRUE, items |-> items]

\* json.dumps of one value
JsonValue(v) == CASE v.kind = "str" -> "\"" \o v.s \o "\""
                  [] v.kind = "int" -> ToString(v.n)
                  [] OTHER -> "null"

RECURSIVE JsonMembers(_)
JsonMembers(items) ==
    IF items = <<>> THEN <<>>
    ELSE <<"\"" \o items[1][1] \o "\":" \o JsonValue(items[1][2])>> \o JsonMembers(Tail(items))

\* json.dumps(body, separators=(',', ':'))
JsonDumps(items) == "{" \o Join(",", JsonMembers(items)) \o "}"

\* body_str of pionex_request: `if body:` is false for None and for {}
BodyStr(body) == IF body.present /\ body.items # <<>> THEN JsonDumps(body.items) ELSE ""

\* hmac.new(secret, msg, sha256).hexdigest(), kept symbolic: equal digests
\* exactly for equal keys and messages
HmacSha256(secret, msg) == [key |-> secret, msg |-> msg]

\* path_url of generate_signature
PathUrl(path, query_string, timestamp) ==
    IF query_string # ""
    THEN path \o "?" \o query_string \o "&timestamp=" \o ToString(timestamp)
    ELSE path \o "?timestamp=" \o ToString(timestamp)

\* sign_str leaving the body out
SignStr_NoBody(method, path, query_string, body, timestamp) ==
    method \o PathUrl(path, query_string, timestamp)

\* sign_str of generate_signature
SignStr(method, path, query_string, body, timestamp) ==
    LET sign_str == method \o PathUrl(path, query_string, timestamp)
    IN IF body # "" THEN sign_str \o body ELSE sign_str

\* generate_signature signing one clock reading and returning a later one
generate_signature_Reread(method, path, query_string, body, clock) ==
    [signature |-> HmacSha256(PIONEX_API_SECRET,
                              SignStr(method, path, query_string, body, clock)),
     timestamp |-> clock + 1]

\* generate_signature, the clock reading it takes given as `clock`
generate_signature(method, path, query_string, body, clock) ==
    LET timestamp == clock
    IN [signature |-> HmacSha256(PIONEX_API_SECRET,
                                 SignStr(method, path, query_string, body, timestamp)),
        timestamp |-> timestamp]

\* the url pionex_request builds from the timestamp generate_signature returned
RequestUrl(endpoint, query_string, timestamp) ==
    IF query_string # ""
    THEN PIONEX_API_URL \o endpoint \o "?" \o query_string \o "&timestamp=" \o ToString(timestamp)
    ELSE PIONEX_API_URL \o endpoint \o "?timestamp=" \o ToString(timestamp)

\* pionex_request from the query string to the headers: the request it will send
SignedRequest(method, endpoint, params, body, clock) ==
    LET query_string == QueryString(params)
        body_str == BodyStr(body)
        sig == generate_signature(method, endpoint, query_string, body_str, clock)
    IN [method |-> method,
        query_string |-> query_string,
        body_str |-> body_str,
        timestamp |-> sig.timestamp,
        url |-> RequestUrl(endpoint, query_string, sig.timestamp),
        key |-> PIONEX_API_KEY,
        signature |-> sig.signature]

-----------------------------------------------------------------------------
(* The signer on its own: calls drawn from bounded sets *)

Methods == {"GET", "POST"}
Endpoints == {"/api/v1/futures/positions", "/api/v1/futures/positions/history"}
ParamKeys == {"limit", "symbol", "Type"}
ParamValues == {Num(100), Str("100"), Str("BTC_USDT"), None}
Bodies == {NoBody, Body(<<>>), Body(<<<<"symbol", Str("BTC_USDT")>>>>),
           Body(<<<<"symbol", Str("BTC_USDT")>>, <<"size", Num(1)>>>>)}

\* the dicts of at most n items over the given keys and values
Dicts(keys, values, n) ==
    UNION {{d \in [1..k -> keys \X values] :
               \A i, j \in 1..k : i # j => d[i][1] # d[j][1]} : k \in 0..n}

Calls == [method : Methods, endpoint : Endpoints,
          params : Dicts(ParamKeys, ParamValues, MaxParams), body : Bodies]

Unsigned == [method |-> "", query_string |-> "", body_str |-> "", timestamp |-> 0,
             url |-> "", key |-> "", signature |-> HmacSha256("", "")]

\* no request is being handled
NoRequest == [variant |-> "", method |-> "", path |-> "", args |-> <<>>]
NoResponse == [statusCode |-> 0]

InitSign ==
    /\ now \in StartMillis..(StartMillis + MaxClock)
    /\ PIONEX_API_KEY = "key"
    /\ PIONEX_API_SECRET = "secret"
    /\ MANUAL_BOT_DATA = <<>>
    /\ request = NoRequest
    /\ response = NoResponse
    /\ sent = <<>>
    /\ call \in Calls
    /\ signed = Unsigned
    /\ threads = <<>>
    /\ posted = <<>>

\* pionex_request signs the call
Sign ==
    /\ signed = Unsigned
    /\ signed' = SignedRequest(call.method, call.endpoint, call.params, call.body, now)
    /\ UNCHANGED <<now, PIONEX_API_KEY, PIONEX_API_SECRET, MANUAL_BOT_DATA, request,
                   response, sent, call, threads, posted>>

NextSign == Sign

SpecSign == InitSign /\ [][NextSign]_vars

-----------------------------------------------------------------------------
(* The upstream exchange, as the proxy sees it *)

NotJson == [invalid |-> TRUE]

\* what one upstream call can come back with: an HTTP response (status, body
\* text, and what a JSON parser makes of the text), or no response at all
Replies ==
    {[transport |-> TRUE, status |-> 200, text |-> "{\"result\":true,\"data\":{}}",
      is_json |-> TRUE, json |-> [result |-> TRUE, data |-> "{}"], reason |-> ""],
     [transport |-> TRUE, status |-> 200, text |-> "{\"result\":false,\"code\":\"INVALID_SIGNATURE\"}",
      is_json |-> TRUE, json |-> [result |-> FALSE, code |-> "INVALID_SIGNATURE"], reason |-> ""],
     [transport |-> TRUE, status |-> 401, text |-> "{\"result\":false,\"code\":\"INVALID_SIGNATURE\"}",
      is_json |-> TRUE, json |-> [result |-> FALSE, code |-> "INVALID_SIGNATURE"], reason |-> ""],
     [transport |-> TRUE, status |-> 500, text |-> "Internal Server Error",
      is_json |-> FALSE, json |-> NotJson, reason |-> ""],
     [transport |-> TRUE, status |-> 200, text |-> "<html>maintenance</html>",
      is_json |-> FALSE, json |-> NotJson, reason |-> ""],
     [transport |-> FALSE, status |-> 0, text |-> "",
      is_json |-> FALSE, json |-> NotJson, reason |-> "Read timed out"]}

\* str(e) of the JSON decoder's exception
JsonErrorText == "Expecting value: line 1 column 1 (char 0)"

\* one upstream call on the wire, with what came back
Wire(variant, req, reply) ==
    [variant |-> variant, method |-> req.method, url |-> req.url, key |-> req.key,
     signature |-> req.signature, body_str |-> req.body_str,
     timestamp |-> req.timestamp, reply |-> reply]

\* the credentials check testing the key alone
NotConfigured_KeyOnly == PIONEX_API_KEY = ""

\* `not PIONEX_API_KEY or not PIONEX_API_SECRET`
NotConfigured == PIONEX_API_KEY = "" \/ PIONEX_API_SECRET = ""

\* what a call of pionex_request gives: the dict it returns (or the exception
\* that leaves it) and the upstream calls it made
Returned(json, wire) == [raised |-> FALSE, json |-> json, sent |-> wire]
Raised(wire) == [raised |-> TRUE, json |-> NotJson, sent |-> wire]

-----------------------------------------------------------------------------
(* src/server.py *)

\* pionex_request of server.py.  requests answers a 4xx/5xx like a 2xx, and
\* response.json() parses the body whatever the status.  Its decode error is a
\* RequestException from requests 2.27 on and a plain ValueError before:
\* json_error_caught says which requests is installed.
server_pionex_request(method, endpoint, params, body, clock, reply, json_error_caught) ==
    IF NotConfigured
    THEN Returned([error |-> "API credentials not configured"], <<>>)
    ELSE LET req == SignedRequest(method, endpoint, params, body, clock)
             wire == <<Wire("server", req, reply)>>
         IN IF method \notin {"GET", "POST", "DELETE"}
            THEN Returned([error |-> "Unsupported method: " \o method], <<>>)
            ELSE IF ~reply.transport THEN Returned([error |-> reply.reason], wire)
            ELSE IF reply.is_json THEN Returned(reply.json, wire)
            ELSE IF json_error_caught THEN Returned([error |-> JsonErrorText], wire)
            ELSE Raised(wire)

\* return jsonify(result): Flask answers 200, and 500 when the view raised
ServerResponse(res) ==
    IF res.raised
    THEN [statusCode |-> 500, body |-> [html |-> "Internal Server Error"]]
    ELSE [statusCode |-> 200, body |-> res.json]

\* request.args of the routes that read them
LimitArgs == {None, Str("50")}
SymbolArgs == {None, Str(""), Str("BTC_USDT")}

\* params = {"limit": request.args.get("limit", 100)}; if symbol: params["symbol"] = symbol
LimitSymbolParams(limit, symbol) ==
    <<<<"limit", IF limit = None THEN Num(100) ELSE limit>>>>
        \o (IF Truthy(symbol) THEN <<<<"symbol", symbol>>>> ELSE <<>>)

\* params = {}; if symbol: params["symbol"] = symbol
SymbolParams(symbol) == IF Truthy(symbol) THEN <<<<"symbol", symbol>>>> ELSE <<>>

\* a view of server.py that proxies one upstream call
ServerProxy(path, args, endpoint, params) ==
    \E reply \in Replies, json_error_caught \in BOOLEAN :
        LET res == server_pionex_request("GET", endpoint, params, NoBody, now, reply,
                                         json_error_caught)
        IN /\ request = NoRequest
           /\ request' = [variant |-> "server", method |-> "GET", path |-> path, args |-> args]
           /\ response' = ServerResponse(res)
           /\ sent' = res.sent
           /\ UNCHANGED <<now, PIONEX_API_KEY, PIONEX_API_SECRET, MANUAL_BOT_DATA,
                          call, signed, threads, posted>>

NoArgs == <<>>

health_check ==
    /\ request = NoRequest
    /\ request' = [variant |-> "server", method |-> "GET", path |-> "/api/health", args |-> NoArgs]
    /\ response' = [statusCode |-> 200,
                    body |-> [status |-> "ok",
                              configured |-> (PIONEX_API_KEY # "" /\ PIONEX_API_SECRET # "")]]
    /\ sent' = <<>>
    /\ UNCHANGED <<now, PIONEX_API_KEY, PIONEX_API_SECRET, MANUAL_BOT_DATA, call, signed, threads, posted>>

get_futures_balance ==
    ServerProxy("/api/futures/balance", NoArgs, "/api/v1/account/balances",
                <<<<"type", Str("PERP")>>>>)

get_futures_positions ==
    ServerProxy("/api/futures/positions", NoArgs, "/api/v1/futures/positions", <<>>)

get_position_history ==
    \E limit \in LimitArgs, symbol \in SymbolArgs :
        ServerProxy("/api/futures/positions/history", <<limit, symbol>>,
                    "/api/v1/futures/positions/history", LimitSymbolParams(limit, symbol))

get_futures_orders ==
    \E symbol \in SymbolArgs :
        ServerProxy("/api/futures/orders", <<symbol>>, "/api/v1/futures/orders",
                    SymbolParams(symbol))

get_order_history ==
    \E limit \in LimitArgs, symbol \in SymbolArgs :
        ServerProxy("/api/futures/orders/history", <<limit, symbol>>,
                    "/api/v1/futures/orders/history", LimitSymbolParams(limit, symbol))

get_funding_fees ==
    \E limit \in LimitArgs, symbol \in SymbolArgs :
        ServerProxy("/api/futures/funding", <<limit, symbol>>,
                    "/api/v1/futures/funding", LimitSymbolParams(limit, symbol))

get_tickers ==
    \E symbol \in SymbolArgs :
        ServerProxy("/api/market/tickers", <<symbol>>, "/api/v1/common/symbols",
                    <<<<"type", Str("PERP")>>>> \o SymbolParams(symbol))

get_price ==
    \E symbol \in SymbolArgs \ {None, Str("")} :
        ServerProxy("/api/market/price/" \o symbol.s, <<symbol>>, "/api/v1/market/ticker",
                    <<<<"symbol", symbol>>>>)

-----------------------------------------------------------------------------
(* src/api/index.py and src/api/positions.py *)

\* pionex_request of index.py (timeout 10) and of positions.py (method GET,
\* timeout 15): urlopen raises HTTPError on a 4xx/5xx, and every other
\* failure, a body that is no JSON included, is caught as Exception
serverless_pionex_request(variant, method, endpoint, params, clock, reply) ==
    IF NotConfigured
    THEN Returned([error |-> "API credentials not configured", result |-> FALSE], <<>>)
    ELSE LET req == SignedRequest(method, endpoint, params, NoBody, clock)
             wire == <<Wire(variant, req, reply)>>
         IN IF ~reply.transport
            THEN Returned([error |-> reply.reason, result |-> FALSE], wire)
            ELSE IF reply.status >= 400
            THEN Returned([error |-> "HTTP " \o ToString(reply.status) \o ": " \o reply.text,
                           result |-> FALSE], wire)
            ELSE IF reply.is_json THEN Returned(reply.json, wire)
            ELSE Returned([error |-> JsonErrorText, result |-> FALSE], wire)

index_pionex_request(method, endpoint, params, clock, reply) ==
    serverless_pionex_request("index", method, endpoint, params, clock, reply)

positions_pionex_request(endpoint, params, clock, reply) ==
    serverless_pionex_request("positions", "GET", endpoint, params, clock, reply)

\* response_body.get("result"), as a condition
GetResult(json) == "result" \in DOMAIN json /\ json.result

\* status_code = 200 if response_body.get("result") else 400
IndexProxied(res) ==
    [response |-> [statusCode |-> (IF GetResult(res.json) THEN 200 ELSE 400), body |-> res.json],
     sent |-> res.sent]

IndexPaths == {"/api", "/api/", "/api/health", "/api/futures/balance", "/api/futures/positions",
               "/api/balance", "/api/balances", "/api/futures/orders", "/api/test", "/api/bots"}

\* handler(request) of index.py; clock and clock2 are the readings of its
\* first and second upstream call, reply and reply2 what they come back with
index_route(path, method, clock, clock2, reply, reply2) ==
    IF method = "OPTIONS"
    THEN [response |-> [statusCode |-> 200, body |-> [text |-> ""]], sent |-> <<>>]
    ELSE CASE path \in {"/api", "/api/", "/api/health"} ->
                [response |-> [statusCode |-> 200,
                               body |-> [status |-> "ok",
                                         configured |-> (PIONEX_API_KEY # "" /\ PIONEX_API_SECRET # ""),
                                         result |-> TRUE]],
                 sent |-> <<>>]
           [] path = "/api/futures/balance" ->
                IndexProxied(index_pionex_request("GET", "/api/v1/account/balances",
                                                  <<<<"type", Str("PERP")>>>>, clock, reply))
           [] path = "/api/futures/positions" ->
                IndexProxied(index_pionex_request("GET", "/api/v1/futures/positions", <<>>,
                                                  clock, reply))
           [] path = "/api/balance" ->
                IndexProxied(index_pionex_request("GET", "/api/v1/account/balances", <<>>,
                                                  clock, reply))
           [] path = "/api/balances" ->
                LET spot == index_pionex_request("GET", "/api/v1/account/balances",
                                                 <<<<"type", Str("SPOT")>>>>, clock, reply)
                    perp == index_pionex_request("GET", "/api/v1/account/balances",
                                                 <<<<"type", Str("PERP")>>>>, clock2, reply2)
                IN [response |-> [statusCode |-> 200,
                                  body |-> [result |-> TRUE, spot |-> spot.json,
                                            futures |-> perp.json]],
                    sent |-> spot.sent \o perp.sent]
           [] path = "/api/futures/orders" ->
                IndexProxied(index_pionex_request("GET", "/api/v1/futures/openOrders", <<>>,
                                                  clock, reply))
           [] path = "/api/test" ->
                [response |-> [statusCode |-> 200,
                               body |-> [result |-> TRUE, message |-> "API is working",
                                         has_key |-> (PIONEX_API_KEY # ""),
                                         has_secret |-> (PIONEX_API_SECRET # ""),
                                         key_preview |-> (IF PIONEX_API_KEY # ""
                                                          THEN SubSeq(PIONEX_API_KEY, 1, 8) \o "..."
                                                          ELSE "not set")]],
                 sent |-> <<>>]
           [] OTHER ->
                [response |-> [statusCode |-> 404, body |-> [error |-> "Not found", result |-> FALSE]],
                 sent |-> <<>>]

\* Handler.do_GET / do_POST / do_OPTIONS of index.py: one inbound request
index_handler ==
    \E path \in IndexPaths, method \in {"GET", "POST", "OPTIONS"},
       reply \in Replies, reply2 \in Replies, elapsed \in 0..1 :
        LET out == index_route(path, method, now, now + elapsed, reply, reply2)
        IN /\ now + elapsed <= StartMillis + MaxClock
           /\ (path # "/api/balances" \/ method = "OPTIONS") => (elapsed = 0 /\ reply2 = reply)
           /\ request = NoRequest
           /\ request' = [variant |-> "index", method |-> method, path |-> path, args |-> NoArgs]
           /\ response' = out.response
           /\ sent' = out.sent
           /\ now' = now + elapsed
           /\ UNCHANGED <<PIONEX_API_KEY, PIONEX_API_SECRET, MANUAL_BOT_DATA, call, signed, threads, posted>>

\* handler.do_GET of positions.py: always answers 200
positions_do_GET ==
    \E reply \in Replies :
        LET res == positions_pionex_request("/api/v1/futures/positions", <<>>, now, reply)
        IN /\ request = NoRequest
           /\ request' = [variant |-> "positions", method |-> "GET", path |-> "/api/positions",
                          args |-> NoArgs]
           /\ response' = [statusCode |-> 200, body |-> res.json]
           /\ sent' = res.sent
           /\ UNCHANGED <<now, PIONEX_API_KEY, PIONEX_API_SECRET, MANUAL_BOT_DATA,
                          call, signed, threads, posted>>

\* handler.do_OPTIONS of positions.py
positions_do_OPTIONS ==
    /\ request = NoRequest
    /\ request' = [variant |-> "positions", method |-> "OPTIONS", path |-> "/api/positions",
                   args |-> NoArgs]
    /\ response' = [statusCode |-> 200, body |-> [text |-> ""]]
    /\ sent' = <<>>
    /\ UNCHANGED <<now, PIONEX_API_KEY, PIONEX_API_SECRET, MANUAL_BOT_DATA, call, signed, threads, posted>>

-----------------------------------------------------------------------------
(* The proxy: the three programs, each handling one request at a time, under *)
(* one clock and one environment *)

\* a millisecond passes
Tick ==
    /\ now < StartMillis + MaxClock
    /\ now' = now + 1
    /\ UNCHANGED <<PIONEX_API_KEY, PIONEX_API_SECRET, MANUAL_BOT_DATA, request, response,
                   sent, call, signed, threads, posted>>

\* the response goes out to the client and the handler returns
respond ==
    /\ request # NoRequest
    /\ request' = NoRequest
    /\ response' = NoResponse
    /\ sent' = <<>>
    /\ UNCHANGED <<now, PIONEX_API_KEY, PIONEX_API_SECRET, MANUAL_BOT_DATA, call, signed, threads, posted>>

Init ==
    /\ now = StartMillis
    /\ PIONEX_API_KEY \in {"", "pk_live_0123456789"}
    /\ PIONEX_API_SECRET \in {"", "secret"}
    /\ MANUAL_BOT_DATA = <<>>
    /\ request = NoRequest
    /\ response = NoResponse
    /\ sent = <<>>
    /\ call = [method |-> "", endpoint |-> "", params |-> <<>>, body |-> NoBody]
    /\ signed = Unsigned
    /\ threads = <<>>
    /\ posted = <<>>

Next ==
    \/ Tick
    \/ health_check
    \/ get_futures_balance
    \/ get_futures_positions
    \/ get_position_history
    \/ get_futures_orders
    \/ get_order_history
    \/ get_funding_fees
    \/ get_tickers
    \/ get_price
    \/ index_handler
    \/ positions_do_GET
    \/ positions_do_OPTIONS
    \/ respond

Spec == Init /\ [][Next]_vars

-----------------------------------------------------------------------------
(* src/server.py: the manual bot store, one request at a time *)

\* key in d
DictHas(d, key) == \E i \in DOMAIN d : d[i][1] = key

\* d[key], for a key in d
DictGet(d, key) == d[CHOOSE i \in DOMAIN d : d[i][1] = key][2]

\* d.get(key, default)
DictGetOr(d, key, default) == IF DictHas(d, key) THEN DictGet(d, key) ELSE default

\* an assignment that always adds an item
DictSet_Append(d, key, value) == Append(d, <<key, value>>)

\* d[key] = value: an existing key keeps its place, a new one goes last
DictSet(d, key, value) ==
    IF DictHas(d, key)
    THEN [i \in DOMAIN d |-> IF d[i][1] = key THEN <<key, value>> ELSE d[i]]
    ELSE Append(d, <<key, value>>)

\* a removal with the test inverted: it keeps the named item and drops the rest
DictDel_Inverted(d, key) == SelectSeq(d, LAMBDA item : item[1] = key)

\* del d[key], for a key in d
DictDel(d, key) == SelectSeq(d, LAMBDA item : item[1] # key)

\* list(d.values())
DictValues(d) == [i \in DOMAIN d |-> d[i][2]]

\* the stored dict with the leverage default 0 instead of 1
BotRecord_LeverageZero(bot_name, data, clock) ==
    [name |-> bot_name,
     pair |-> DictGetOr(data, "pair", Str("")),
     leverage |-> DictGetOr(data, "leverage", Num(0)),
     investment |-> DictGetOr(data, "investment", Num(0)),
     profit |-> DictGetOr(data, "profit", Num(0)),
     profitPercent |-> DictGetOr(data, "profitPercent", Num(0)),
     lastPrice |-> DictGetOr(data, "lastPrice", Num(0)),
     markPrice |-> DictGetOr(data, "markPrice", Num(0)),
     liqPrice |-> DictGetOr(data, "liqPrice", None),
     updatedAt |-> Num(clock)]

\* the dict update_bot stores
BotRecord(bot_name, data, clock) ==
    [name |-> bot_name,
     pair |-> DictGetOr(data, "pair", Str("")),
     leverage |-> DictGetOr(data, "leverage", Num(1)),
     investment |-> DictGetOr(data, "investment", Num(0)),
     profit |-> DictGetOr(data, "profit", Num(0)),
     profitPercent |-> DictGetOr(data, "profitPercent", Num(0)),
     lastPrice |-> DictGetOr(data, "lastPrice", Num(0)),
     markPrice |-> DictGetOr(data, "markPrice", Num(0)),
     liqPrice |-> DictGetOr(data, "liqPrice", None),
     updatedAt |-> Num(clock)]

\* JSON objects a client posts: the name absent, empty or given, and the
\* other fields omitted, given in part or given in full
PostedNames == {<<>>, <<<<"name", Str("")>>>>, <<<<"name", Str("bot1")>>>>, <<<<"name", Str("bot2")>>>>}
PostedFields ==
    {<<>>,
     <<<<"pair", Str("BTCUSDT")>>, <<"leverage", Num(5)>>>>,
     <<<<"pair", Str("ETHUSDT")>>, <<"leverage", Num(10)>>, <<"investment", Num(100)>>,
       <<"profit", Num(7)>>, <<"profitPercent", Num(7)>>, <<"lastPrice", Num(3000)>>,
       <<"markPrice", Num(3001)>>, <<"liqPrice", Num(2500)>>>>}
Payloads == {n \o f : n \in PostedNames, f \in PostedFields}

\* the names a DELETE /api/bots/<bot_name> can carry
DeletedNames == {Str("bot1"), Str("bot2")}

\* the history of stamps after a POST of bot_name at clock
Stamped(bot_name, clock) ==
    [n \in DOMAIN posted \cup {bot_name} |->
        IF n = bot_name
        THEN <<IF bot_name \in DOMAIN posted THEN posted[bot_name][2] ELSE -1, clock>>
        ELSE posted[n]]

get_bots ==
    /\ request = NoRequest
    /\ request' = [variant |-> "server", method |-> "GET", path |-> "/api/bots", args |-> NoArgs]
    /\ response' = [statusCode |-> 200,
                    body |-> [result |-> TRUE, data |-> [bots |-> DictValues(MANUAL_BOT_DATA)]]]
    /\ UNCHANGED <<now, PIONEX_API_KEY, PIONEX_API_SECRET, MANUAL_BOT_DATA, sent, call,
                   signed, threads, posted>>

update_bot ==
    \E data \in Payloads :
        LET bot_name == DictGetOr(data, "name", None)
            store == DictSet(MANUAL_BOT_DATA, bot_name, BotRecord(bot_name, data, now))
        IN /\ request = NoRequest
           /\ request' = [variant |-> "server", method |-> "POST", path |-> "/api/bots",
                          args |-> data]
           /\ IF ~Truthy(bot_name)
              THEN /\ response' = [statusCode |-> 400, body |-> [error |-> "Bot name required"]]
                   /\ UNCHANGED <<MANUAL_BOT_DATA, posted>>
              ELSE /\ MANUAL_BOT_DATA' = store
                   /\ response' = [statusCode |-> 200,
                                   body |-> [result |-> TRUE, data |-> DictGet(store, bot_name)]]
                   /\ posted' = Stamped(bot_name, now)
           /\ UNCHANGED <<now, PIONEX_API_KEY, PIONEX_API_SECRET, sent, call, signed, threads>>

delete_bot ==
    \E bot_name \in DeletedNames :
        /\ request = NoRequest
        /\ request' = [variant |-> "server", method |-> "DELETE",
                       path |-> "/api/bots/" \o bot_name.s, args |-> bot_name]
        /\ IF DictHas(MANUAL_BOT_DATA, bot_name)
           THEN /\ MANUAL_BOT_DATA' = DictDel(MANUAL_BOT_DATA, bot_name)
                /\ response' = [statusCode |-> 200, body |-> [result |-> TRUE]]
           ELSE /\ response' = [statusCode |-> 404, body |-> [error |-> "Bot not found"]]
                /\ UNCHANGED MANUAL_BOT_DATA
        /\ UNCHANGED <<now, PIONEX_API_KEY, PIONEX_API_SECRET, sent, call, signed, threads, posted>>

InitBots ==
    /\ now = StartMillis
    /\ PIONEX_API_KEY = ""
    /\ PIONEX_API_SECRET = ""
    /\ MANUAL_BOT_DATA = <<>>
    /\ request = NoRequest
    /\ response = NoResponse
    /\ sent = <<>>
    /\ call = [method |-> "", endpoint |-> "", params |-> <<>>, body |-> NoBody]
    /\ signed = Unsigned
    /\ threads = <<>>
    /\ posted = <<>>

NextBots ==
    \/ Tick
    \/ get_bots
    \/ update_bot
    \/ delete_bot
    \/ respond

SpecBots == InitBots /\ [][NextBots]_vars

-----------------------------------------------------------------------------
(* src/server.py: the bot store under the threaded Flask server.  Each      *)
(* access of MANUAL_BOT_DATA is one atomic step; a thread may be preempted  *)
(* between any two of them.                                                 *)

Threads == 1..NumThreads

Idle == [pc |-> "idle", op |-> "", bot_name |-> None, data |-> <<>>, wrote |-> <<>>,
         result |-> NoResponse]

\* the view raised: Flask answers 500
InternalServerError == [statusCode |-> 500, body |-> [html |-> "KeyError"]]

ConcPayloads == {p \in Payloads : ~DictHas(p, "investment")}

OtherVars == <<PIONEX_API_KEY, PIONEX_API_SECRET, request, response, sent, call, signed, posted>>

\* update_bot up to its name check: data = request.json, bot_name = data.get("name")
conc_update_begin(t) ==
    \E data \in ConcPayloads :
        LET bot_name == DictGetOr(data, "name", None)
        IN /\ threads[t].pc = "idle"
           /\ threads' = [threads EXCEPT ![t] =
                  IF ~Truthy(bot_name)
                  THEN [Idle EXCEPT !.pc = "done", !.op = "update_bot", !.data = data,
                                    !.result = [statusCode |-> 400,
                                                body |-> [error |-> "Bot name required"]]]
                  ELSE [Idle EXCEPT !.pc = "store", !.op = "update_bot", !.data = data,
                                    !.bot_name = bot_name]]
           /\ UNCHANGED <<now, MANUAL_BOT_DATA, OtherVars>>

\* MANUAL_BOT_DATA[bot_name] = {...}
conc_update_store(t) ==
    LET record == BotRecord(threads[t].bot_name, threads[t].data, now)
    IN /\ threads[t].pc = "store"
       /\ MANUAL_BOT_DATA' = DictSet(MANUAL_BOT_DATA, threads[t].bot_name, record)
       /\ threads' = [threads EXCEPT ![t].pc = "load", ![t].wrote = <<record>>]
       /\ UNCHANGED <<now, OtherVars>>

\* return jsonify({"result": True, "data": MANUAL_BOT_DATA[bot_name]})
conc_update_load(t) ==
    /\ threads[t].pc = "load"
    /\ threads' = [threads EXCEPT ![t].pc = "done", ![t].result =
           IF DictHas(MANUAL_BOT_DATA, threads[t].bot_name)
           THEN [statusCode |-> 200,
                 body |-> [result |-> TRUE,
                           data |-> DictGet(MANUAL_BOT_DATA, threads[t].bot_name)]]
           ELSE InternalServerError]
    /\ UNCHANGED <<now, MANUAL_BOT_DATA, OtherVars>>

\* if bot_name in MANUAL_BOT_DATA
conc_delete_test(t) ==
    \E bot_name \in DeletedNames :
        /\ threads[t].pc = "idle"
        /\ threads' = [threads EXCEPT ![t] =
               IF DictHas(MANUAL_BOT_DATA, bot_name)
               THEN [Idle EXCEPT !.pc = "del", !.op = "delete_bot", !.bot_name = bot_name]
               ELSE [Idle EXCEPT !.pc = "done", !.op = "delete_bot", !.bot_name = bot_name,
                                 !.result = [statusCode |-> 404,
                                             body |-> [error |-> "Bot not found"]]]]
        /\ UNCHANGED <<now, MANUAL_BOT_DATA, OtherVars>>

\* del MANUAL_BOT_DATA[bot_name]; return jsonify({"result": True})
conc_delete_del(t) ==
    /\ threads[t].pc = "del"
    /\ IF DictHas(MANUAL_BOT_DATA, threads[t].bot_name)
       THEN /\ MANUAL_BOT_DATA' = DictDel(MANUAL_BOT_DATA, threads[t].bot_name)
            /\ threads' = [threads EXCEPT ![t].pc = "done",
                                          ![t].result = [statusCode |-> 200,
                                                         body |-> [result |-> TRUE]]]
       ELSE /\ threads' = [threads EXCEPT ![t].pc = "done", ![t].result = InternalServerError]
            /\ UNCHANGED MANUAL_BOT_DATA
    /\ UNCHANGED <<now, OtherVars>>

\* get_bots: list(MANUAL_BOT_DATA.values()) runs without a thread switch
conc_get_bots(t) ==
    /\ threads[t].pc = "idle"
    /\ threads' = [threads EXCEPT ![t] =
           [Idle EXCEPT !.pc = "done", !.op = "get_bots",
                        !.result = [statusCode |-> 200,
                                    body |-> [result |-> TRUE,
                                              data |-> [bots |-> DictValues(MANUAL_BOT_DATA)]]]]]
    /\ UNCHANGED <<now, MANUAL_BOT_DATA, OtherVars>>

\* the response goes out and the thread takes the next request
conc_respond(t) ==
    /\ threads[t].pc = "done"
    /\ threads' = [threads EXCEPT ![t] = Idle]
    /\ UNCHANGED <<now, MANUAL_BOT_DATA, OtherVars>>

conc_tick ==
    /\ now < StartMillis + MaxClock
    /\ now' = now + 1
    /\ UNCHANGED <<MANUAL_BOT_DATA, threads, OtherVars>>

InitConc ==
    /\ now = StartMillis
    /\ PIONEX_API_KEY = ""
    /\ PIONEX_API_SECRET = ""
    /\ MANUAL_BOT_DATA = <<>>
    /\ request = NoRequest
    /\ response = NoResponse
    /\ sent = <<>>
    /\ call = [method |-> "", endpoint |-> "", params |-> <<>>, body |-> NoBody]
    /\ signed = Unsigned
    /\ threads = [t \in Threads |-> Idle]
    /\ posted = <<>>

NextConc ==
    \/ conc_tick
    \/ \E t \in Threads :
        \/ conc_update_begin(t)
        \/ conc_update_store(t)
        \/ conc_update_load(t)
        \/ conc_delete_test(t)
        \/ conc_delete_del(t)
        \/ conc_get_bots(t)
        \/ conc_respond(t)

SpecConc == InitConc /\ [][NextConc]_vars

-----------------------------------------------------------------------------
(* Vocabulary of the properties *)

\* sub occurs in s
Contains(s, sub) ==
    \E i \in 1..(Len(s) - Len(sub) + 1) : SubSeq(s, i, i + Len(sub) - 1) = sub

\* the number of places where sub occurs in s
Occurrences(s, sub) ==
    Cardinality({i \in 1..(Len(s) - Len(sub) + 1) : SubSeq(s, i, i + Len(sub) - 1) = sub})

\* the places of key among the items of a dict
PlacesOf(d, key) == {i \in DOMAIN d : d[i][1] = key}

CredentialsAbsent == PIONEX_API_KEY = "" \/ PIONEX_API_SECRET = ""

\* the request in hand is for a route that forwards to the exchange
Proxied ==
    \/ request.variant = "server" /\ request.method = "GET"
          /\ request.path \notin {"/api/health", "/api/bots"}
    \/ request.variant = "index" /\ request.method # "OPTIONS"
          /\ request.path \in {"/api/futures/balance", "/api/futures/positions", "/api/balance",
                               "/api/balances", "/api/futures/orders"}
    \/ request.variant = "positions" /\ request.method = "GET"

\* the route that merges two upstream calls into one envelope
Composite ==
    request.variant = "index" /\ request.method # "OPTIONS" /\ request.path = "/api/balances"

HealthRoute ==
    \/ request.variant = "server" /\ request.path = "/api/health"
    \/ request.variant = "index" /\ request.method # "OPTIONS"
          /\ request.path \in {"/api", "/api/", "/api/health"}

\* the envelope the caller gets for the i-th upstream call of the request
EnvelopeOf(i) ==
    IF Composite THEN (IF i = 1 THEN response.body.spot ELSE response.body.futures)
    ELSE response.body

\* a JSON envelope with result false and an error string
ErrorEnvelope(e) == /\ "result" \in DOMAIN e /\ e.result = FALSE /\ "error" \in DOMAIN e

IsConfigurationError(e) == "error" \in DOMAIN e /\ e.error = "API credentials not configured"

UpstreamHTTPError(reply) == reply.transport /\ reply.status >= 400
TransportError(reply) == ~reply.transport \/ (reply.status < 400 /\ ~reply.is_json)

BotRoute == request.variant = "server" /\ SubSeq(request.path, 1, 9) = "/api/bots"

-----------------------------------------------------------------------------
(* C3  Every error outcome on every route (credentials absent, an upstream *)
(* HTTP error, a transport or parse failure, a missing or unknown bot      *)
(* name) reaches the caller as a JSON envelope holding both result = false *)
(* and an error string.                                                    *)
C3_ErrorEnvelope ==
    /\ (Proxied /\ CredentialsAbsent) =>
           IF Composite THEN ErrorEnvelope(response.body.spot) /\ ErrorEnvelope(response.body.futures)
           ELSE ErrorEnvelope(response.body)
    /\ \A i \in DOMAIN sent :
           (UpstreamHTTPError(sent[i].reply) \/ TransportError(sent[i].reply))
               => ErrorEnvelope(EnvelopeOf(i))
    /\ (BotRoute /\ response.statusCode \in {400, 404}) => ErrorEnvelope(response.body)

(* C4  In every variant, one timestamp is generated per upstream request:  *)
(* the URL sent is the base URL followed by exactly the path-url that was  *)
(* signed (the signed string is method + path?query&timestamp=ts + body),  *)
(* and that URL carries a single timestamp, the one the signer returned.   *)
C4_OneTimestamp ==
    \A i \in DOMAIN sent :
        LET c == sent[i]
            base == SubSeq(c.url, 1, Len(PIONEX_API_URL))
            path_url == SubSeq(c.url, Len(PIONEX_API_URL) + 1, Len(c.url))
            stamp == "timestamp=" \o ToString(c.timestamp)
        IN /\ base = PIONEX_API_URL
           /\ c.signature.msg = c.method \o path_url \o c.body_str
           /\ Occurrences(c.url, "timestamp=") = 1
           /\ SubSeq(c.url, Len(c.url) - Len(stamp) + 1, Len(c.url)) = stamp

\* two upstream calls of one request went out, the second a millisecond later,
\* and a call with query parameters went out
C4_Witness ==
    /\ Len(sent) = 2
    /\ sent[2].timestamp > sent[1].timestamp
    /\ Contains(sent[1].url, "?type=SPOT&timestamp=")

(* C5 as stated: with the key or the secret empty every proxied route      *)
(* returns the configuration-error response and issues no upstream call;   *)
(* the health route reports configured = false then, true only when both   *)
(* are set, and never calls upstream.                                      *)
C5_Original ==
    /\ (Proxied /\ CredentialsAbsent) => (sent = <<>> /\ IsConfigurationError(response.body))
    /\ HealthRoute => (sent = <<>> /\ response.body.configured = ~CredentialsAbsent)

(* C5 as amended: the same, except that the composite /api/balances route  *)
(* returns a result = true envelope whose spot and futures members are     *)
(* each the configuration-error response.                                  *)
C5_CredentialsGate ==
    /\ (Proxied /\ CredentialsAbsent) =>
           /\ sent = <<>>
           /\ IF Composite
              THEN /\ response.body.result = TRUE
                   /\ IsConfigurationError(response.body.spot)
                   /\ IsConfigurationError(response.body.futures)
              ELSE IsConfigurationError(response.body)
    /\ HealthRoute => (sent = <<>> /\ response.body.configured = ~CredentialsAbsent)

\* a proxied route answered the configuration error with only the secret missing
C5_Witness ==
    /\ Proxied /\ ~Composite
    /\ PIONEX_API_KEY # "" /\ PIONEX_API_SECRET = ""
    /\ IsConfigurationError(response.body)
    /\ sent = <<>>

(* C8  When the upstream answers a proxied call with a 4xx or 5xx status,  *)
(* the caller gets result = false and an error message that embeds the     *)
(* upstream status code and the upstream body text, in every variant.      *)
C8_UpstreamErrorSurfaced ==
    \A i \in DOMAIN sent :
        UpstreamHTTPError(sent[i].reply) =>
            /\ ErrorEnvelope(EnvelopeOf(i))
            /\ Contains(EnvelopeOf(i).error, ToString(sent[i].reply.status))
            /\ Contains(EnvelopeOf(i).error, sent[i].reply.text)

-----------------------------------------------------------------------------
(* Vocabulary of the bot-store properties *)

\* a POST /api/bots has just been accepted, for the name it carried
PostAccepted ==
    /\ request.variant = "server" /\ request.method = "POST" /\ request.path = "/api/bots"
    /\ response.statusCode = 200

\* the name of the POST in hand
PostedName == request.args[CHOOSE i \in DOMAIN request.args : request.args[i][1] = "name"][2]

\* what GET /api/bots lists for a store
Listing(store) == [i \in DOMAIN store |-> store[i][2]]

\* the defaults of the fields a POST may omit
FieldDefault ==
    [pair |-> Str(""), leverage |-> Num(1), investment |-> Num(0), profit |-> Num(0),
     profitPercent |-> Num(0), lastPrice |-> Num(0), markPrice |-> Num(0), liqPrice |-> None]

\* record carries the posted value of each field data supplies and the default of each it omits
FilledFrom(record, data) ==
    \A f \in DOMAIN FieldDefault :
        IF PlacesOf(data, f) # {}
        THEN \A i \in PlacesOf(data, f) : record[f] = data[i][2]
        ELSE record[f] = FieldDefault[f]

\* data carries a name that is not empty
NamedIn(data) ==
    /\ PlacesOf(data, "name") # {}
    /\ \A i \in PlacesOf(data, "name") : data[i][2] \notin {None, Str("")}

\* the step in which server.py handles a request of the given method
Handles(method) == request = NoRequest /\ request'.variant = "server" /\ request'.method = method

\* a GET /api/bots lists the stored records, and changes nothing
GetListsStore ==
    (Handles("GET") /\ request'.path = "/api/bots") =>
        /\ response'.statusCode = 200
        /\ response'.body.data.bots = Listing(MANUAL_BOT_DATA)
        /\ MANUAL_BOT_DATA' = MANUAL_BOT_DATA

\* after an accepted POST the store and the listing hold one record for its
\* name, with the fields of that POST
OneRecordOfThePost ==
    LET places == PlacesOf(MANUAL_BOT_DATA, PostedName)
        listed == Listing(MANUAL_BOT_DATA)
    IN /\ Cardinality(places) = 1
       /\ Cardinality({i \in DOMAIN listed : listed[i].name = PostedName}) = 1
       /\ \A i \in places :
              /\ MANUAL_BOT_DATA[i][2].name = PostedName
              /\ FilledFrom(MANUAL_BOT_DATA[i][2], request.args)
              /\ response.body.data = MANUAL_BOT_DATA[i][2]

\* the POST in hand is not the first of its name
SecondPost == PostAccepted /\ posted[PostedName][1] # -1

(* C1 as stated: a second POST of a name overwrites: the store and the     *)
(* listing hold exactly one record for the name, its fields are those of   *)
(* the second POST, and its updatedAt is strictly greater than the one the *)
(* previous POST of that name stamped.                                     *)
C1_Original ==
    SecondPost =>
        /\ OneRecordOfThePost
        /\ \A i \in PlacesOf(MANUAL_BOT_DATA, PostedName) :
               MANUAL_BOT_DATA[i][2].updatedAt.n > posted[PostedName][1]

(* C1 as amended: the same, with updatedAt greater than or equal to the    *)
(* previous stamp: two POSTs within one millisecond stamp the same value.  *)
C1_Overwrite ==
    SecondPost =>
        /\ OneRecordOfThePost
        /\ \A i \in PlacesOf(MANUAL_BOT_DATA, PostedName) :
               MANUAL_BOT_DATA[i][2].updatedAt.n >= posted[PostedName][1]

\* a name was posted again, later and with other fields, next to another bot
C1_Witness ==
    /\ SecondPost
    /\ posted[PostedName][2] > posted[PostedName][1]
    /\ Len(MANUAL_BOT_DATA) = 2
    /\ PlacesOf(request.args, "pair") # {}

(* C2  DELETE /api/bots/{name} of a name not in the store answers 404 with *)
(* an error and leaves the store unchanged; of a name in the store it      *)
(* removes exactly that record and leaves every other record as it was;    *)
(* and a name that is not listed gets listed again only by a POST of it.   *)
C2_Delete ==
    [][/\ Handles("DELETE") =>
              LET bot_name == request'.args
              IN IF PlacesOf(MANUAL_BOT_DATA, bot_name) = {}
                 THEN /\ response'.statusCode = 404
                      /\ "error" \in DOMAIN response'.body
                      /\ MANUAL_BOT_DATA' = MANUAL_BOT_DATA
                 ELSE /\ response'.statusCode = 200
                      /\ response'.body.result = TRUE
                      /\ PlacesOf(MANUAL_BOT_DATA', bot_name) = {}
                      /\ Len(MANUAL_BOT_DATA') = Len(MANUAL_BOT_DATA) - 1
                      /\ \A i \in DOMAIN MANUAL_BOT_DATA :
                             MANUAL_BOT_DATA[i][1] # bot_name =>
                                 \E j \in DOMAIN MANUAL_BOT_DATA' :
                                     MANUAL_BOT_DATA'[j] = MANUAL_BOT_DATA[i]
       /\ \A bot_name \in DeletedNames :
              (PlacesOf(MANUAL_BOT_DATA, bot_name) = {} /\ PlacesOf(MANUAL_BOT_DATA', bot_name) # {})
                  => (Handles("POST") /\ NamedIn(request'.args)
                        /\ \A i \in PlacesOf(request'.args, "name") : request'.args[i][2] = bot_name)
       /\ GetListsStore]_vars

\* one of two stored bots was deleted
C2_Witness ==
    /\ request.variant = "server" /\ request.method = "DELETE"
    /\ response.statusCode = 200
    /\ Len(MANUAL_BOT_DATA) = 1

(* C9  A POST /api/bots with a non-empty name stores, and a GET /api/bots  *)
(* then lists, a record with that name, the posted values of the supplied  *)
(* fields and the defaults of the omitted ones (pair "", leverage 1,       *)
(* investment, profit, profitPercent, lastPrice, markPrice 0, liqPrice     *)
(* null); a POST with a missing or empty name answers a client error and   *)
(* leaves the store unchanged.                                             *)
C9_PostThenList ==
    [][/\ (Handles("POST") /\ request'.path = "/api/bots") =>
              LET data == request'.args
              IN IF NamedIn(data)
                 THEN /\ response'.statusCode = 200
                      /\ \E i \in DOMAIN MANUAL_BOT_DATA' :
                             LET record == Listing(MANUAL_BOT_DATA')[i]
                             IN /\ \A k \in PlacesOf(data, "name") : record.name = data[k][2]
                                /\ FilledFrom(record, data)
                 ELSE /\ response'.statusCode = 400
                      /\ "error" \in DOMAIN response'.body
                      /\ MANUAL_BOT_DATA' = MANUAL_BOT_DATA
       /\ GetListsStore]_vars

\* a bot posted with its pair and leverage and nothing else is in the listing
C9_Witness ==
    /\ request.variant = "server" /\ request.method = "GET" /\ request.path = "/api/bots"
    /\ \E i \in DOMAIN response.body.data.bots :
           LET record == response.body.data.bots[i]
           IN record.pair = Str("BTCUSDT") /\ record.leverage = Num(5) /\ record.profit = Num(0)
                 /\ record.liqPrice = None

-----------------------------------------------------------------------------
(* Vocabulary of the signer properties *)

\* the places of the parameters that have a value
Kept(params) == {i \in DOMAIN params : params[i][2] # None}

RECURSIVE Canonical(_, _)
\* the key=value pairs at the given places, least key first, joined by "&"
Canonical(params, places) ==
    IF places = {} THEN ""
    ELSE LET least == CHOOSE i \in places :
                          \A j \in places \ {i} : StrLess(params[i][1], params[j][1])
         IN params[least][1] \o "=" \o Format(params[least][2])
                \o (IF places \ {least} = {} THEN ""
                    ELSE "&" \o Canonical(params, places \ {least}))

\* the same items in every insertion order
Reorderings(params) ==
    {[i \in DOMAIN params |-> params[f[i]]] :
        f \in {g \in [DOMAIN params -> DOMAIN params] :
                  \A i, j \in DOMAIN params : g[i] = g[j] => i = j}}

\* the signature pionex_request puts on a call at a clock reading
SignatureOf(c, clock) == SignedRequest(c.method, c.endpoint, c.params, c.body, clock).signature

ClockReadings == StartMillis..(StartMillis + MaxClock + 1)

\* a body that json.dumps gets to see
BodyShown(body) == body.present /\ body.items # <<>>

\* what the query string shows of a value
Shown(value) == IF value = None THEN <<>> ELSE <<Format(value)>>

\* the calls that differ from c in the method, the path or the body alone
MethodVariants(c) == {[c EXCEPT !.method = m] : m \in (Methods \cup {"DELETE"}) \ {c.method}}
PathVariants(c) == {[c EXCEPT !.endpoint = e] : e \in Endpoints \ {c.endpoint}}
BodyVariants(c) == {[c EXCEPT !.body = b] : b \in Bodies \ {c.body}}

\* the calls that differ from c in the value, or in the key, of one parameter
ValueVariants(c) ==
    UNION {{[c EXCEPT !.params[i][2] = v] : v \in ParamValues \ {c.params[i][2]}} :
              i \in DOMAIN c.params}
KeyVariants(c) ==
    UNION {{[c EXCEPT !.params[i][1] = k] :
               k \in ParamKeys \ {c.params[j][1] : j \in DOMAIN c.params}} :
              i \in DOMAIN c.params}

\* the place where the parameters of two calls differ
DifferingPlace(c, d) ==
    CHOOSE i \in DOMAIN c.params : c.params[i] # d.params[i]

(* C6  The canonical query string lists the key=value pairs of exactly the *)
(* parameters whose value is not None, in lexicographic key order, joined  *)
(* by "&", whatever the insertion order; it is empty when no parameter     *)
(* remains, and then the timestamp is attached with "?" instead of "&".    *)
C6_CanonicalQuery ==
    signed # Unsigned =>
        /\ signed.query_string = Canonical(call.params, Kept(call.params))
        /\ \A p \in Reorderings(call.params) :
               SignedRequest(call.method, call.endpoint, p, call.body, now).url = signed.url
        /\ (Kept(call.params) = {}) <=> (signed.query_string = "")
        /\ signed.url = PIONEX_API_URL \o call.endpoint \o "?" \o signed.query_string
                            \o (IF Kept(call.params) = {} THEN "" ELSE "&")
                            \o "timestamp=" \o ToString(now)

\* a call was signed whose two parameters were inserted in descending key order
C6_Witness ==
    /\ signed # Unsigned
    /\ Len(call.params) = 2
    /\ StrLess(call.params[2][1], call.params[1][1])
    /\ Kept(call.params) = {1, 2}

(* C7 as stated: the signature is a function of (method, path, params,     *)
(* body, timestamp), and two tuples that differ in one field (the method,  *)
(* the path, one parameter key or value, the body, the timestamp) get      *)
(* different signatures.                                                   *)
C7_Original ==
    signed # Unsigned =>
        /\ signed.signature = SignatureOf(call, now)
        /\ \A d \in MethodVariants(call) \cup PathVariants(call) \cup BodyVariants(call)
                       \cup ValueVariants(call) \cup KeyVariants(call) :
               SignatureOf(d, now) # signed.signature
        /\ \A t \in ClockReadings \ {now} : SignatureOf(call, t) # signed.signature

(* C7 as amended: the same for a difference that the formatted request     *)
(* shows: the method, the path, the timestamp, a body of which at least    *)
(* one of the two is a non-empty dict, the value of one parameter where    *)
(* the two values format differently (None counting as absent), or the key *)
(* of one parameter whose value is not None.                               *)
C7_Sensitive ==
    signed # Unsigned =>
        /\ signed.signature = SignatureOf(call, now)
        /\ \A d \in MethodVariants(call) \cup PathVariants(call) :
               SignatureOf(d, now) # signed.signature
        /\ \A d \in BodyVariants(call) :
               (BodyShown(d.body) \/ BodyShown(call.body))
                   => SignatureOf(d, now) # signed.signature
        /\ \A d \in ValueVariants(call) :
               LET i == DifferingPlace(call, d)
               IN Shown(d.params[i][2]) # Shown(call.params[i][2])
                      => SignatureOf(d, now) # signed.signature
        /\ \A d \in KeyVariants(call) :
               LET i == DifferingPlace(call, d)
               IN call.params[i][2] # None => SignatureOf(d, now) # signed.signature
        /\ \A t \in ClockReadings \ {now} : SignatureOf(call, t) # signed.signature

\* a call with a body and with a parameter of value 100 was signed
C7_Witness ==
    /\ signed # Unsigned
    /\ BodyShown(call.body)
    /\ \E i \in DOMAIN call.params : call.params[i][2] = Num(100)

-----------------------------------------------------------------------------
(* C10  With upserts, deletes and listings running concurrently on the     *)
(* unlocked map, every request ends with one of its documented responses   *)
(* (upsert: the client error for a missing name, or success with the       *)
(* record it wrote; delete: success or not-found; list: the stored         *)
(* records), none fails with an unhandled exception, and the map holds at  *)
(* most one record per name, whose name field equals its key.              *)
C10_Interleavings ==
    /\ \A t \in DOMAIN threads :
           threads[t].pc = "done" =>
               LET r == threads[t].result
               IN /\ r.statusCode # 500
                  /\ threads[t].op = "update_bot" =>
                         \/ r.statusCode = 400
                         \/ r.statusCode = 200 /\ r.body.data = threads[t].wrote[1]
                  /\ threads[t].op = "delete_bot" => r.statusCode \in {200, 404}
                  /\ threads[t].op = "get_bots" => r.statusCode = 200
    /\ \A i, j \in DOMAIN MANUAL_BOT_DATA :
           MANUAL_BOT_DATA[i][1] = MANUAL_BOT_DATA[j][1] => i = j
    /\ \A i \in DOMAIN MANUAL_BOT_DATA : MANUAL_BOT_DATA[i][2].name = MANUAL_BOT_DATA[i][1]

====
